---------------------------- MODULE Spec2Model ----------------------------
(***************************************************************************)
(* Trade order sheet (src/tradeordersheet.py): numeric coercion of sheet   *)
(* cells, the reorder-quantity computation of the product matrix, and the  *)
(* submit loop that appends order rows to the "Orders" worksheet and mails *)
(* the administrators about excess orders.                                 *)
(***************************************************************************)
EXTENDS Integers, Sequences, FiniteSets, TLC

VARIABLES
    cell, num,                 \* to_num: the cell coerced, the value returned
    eng,                       \* one row of the product matrix: inputs and outputs
    admin_emails, days_in_current_month,
    logged_in, employee, party, store_name, category, soh_in, qty_in,
    order_entries, pc, line, sheet, mail, warnings, base, submits

vars == <<cell, num, eng, admin_emails, days_in_current_month, logged_in, employee, party,
          store_name, category, soh_in, qty_in, order_entries, pc, line, sheet,
          mail, warnings, base, submits>>

Max(a, b) == IF a >= b THEN a ELSE b

Abs(a) == IF a >= 0 THEN a ELSE -a

(***************************************************************************)
(* Sheet cells.  gspread hands back an int, a float or a string for a      *)
(* cell; a missing dictionary key gives None.  A string is a sequence of   *)
(* characters.  A finite float is the fraction n/d.                        *)
(***************************************************************************)
NoneCell == [k |-> "none", n |-> 0, d |-> 1, s |-> <<>>]

IntCell(v) == [k |-> "int", n |-> v, d |-> 1, s |-> <<>>]

FloatCell(n, d) == [k |-> "float", n |-> n, d |-> d, s |-> <<>>]

NanCell == [k |-> "nan", n |-> 0, d |-> 1, s |-> <<>>]

InfCell == [k |-> "inf", n |-> 1, d |-> 1, s |-> <<>>]

StrCell(s) == [k |-> "str", n |-> 0, d |-> 1, s |-> s]

Digits == <<"0", "1", "2", "3", "4", "5", "6", "7", "8", "9">>

DigitChars == {Digits[j] : j \in 1..10}

DigitVal(c) == (CHOOSE j \in 1..10 : Digits[j] = c) - 1

\* str.strip(): leading and trailing whitespace removed
RECURSIVE LStrip(_)
LStrip(s) == IF s # <<>> /\ Head(s) = " " THEN LStrip(Tail(s)) ELSE s

RECURSIVE RStrip(_)
RStrip(s) ==
    IF s # <<>> /\ s[Len(s)] = " " THEN RStrip(SubSeq(s, 1, Len(s) - 1)) ELSE s

Strip(s) == RStrip(LStrip(s))

\* str.replace(",", "")
RemoveCommas(s) == SelectSeq(s, LAMBDA c : c # ",")

\* str.lower() on the letters the cells use
LowerChar(c) == IF c = "N" THEN "n" ELSE IF c = "A" THEN "a" ELSE c

Lower(s) == [j \in 1..Len(s) |-> LowerChar(s[j])]

RECURSIVE DecVal(_)
DecVal(s) == IF s = <<>> THEN 0 ELSE 10 * DecVal(SubSeq(s, 1, Len(s) - 1)) + DigitVal(s[Len(s)])

AllDigits(s) == \A j \in 1..Len(s) : s[j] \in DigitChars

(***************************************************************************)
(* int(float(s)) for a string over digits, sign, point, blank and letters: *)
(* float() strips whitespace, takes an optional sign and then digits with  *)
(* an optional point (at least one digit); int() truncates toward zero, so *)
(* only the digits before the point count.  Anything else raises: text     *)
(* that is no number raises ValueError in float(), and "-nan"/"+nan" parse *)
(* to NaN, on which int() raises ValueError.  (Exponents, underscores and  *)
(* "inf" are outside the alphabet of the cells drawn here.)                *)
(***************************************************************************)
IntOfFloatStr(s) ==
    LET t == Strip(s)
        signed == t # <<>> /\ Head(t) \in {"-", "+"}
        sgn == IF signed /\ Head(t) = "-" THEN -1 ELSE 1
        u == IF signed THEN Tail(t) ELSE t
        pts == {j \in 1..Len(u) : u[j] = "."}
        p == IF pts = {} THEN Len(u) + 1 ELSE CHOOSE j \in pts : TRUE
        ip == SubSeq(u, 1, p - 1)
        fp == SubSeq(u, p + 1, Len(u))
        ok == /\ Cardinality(pts) <= 1
              /\ AllDigits(ip) /\ AllDigits(fp)
              /\ Len(ip) + Len(fp) >= 1
    IN  IF ok THEN [raised |-> FALSE, v |-> sgn * DecVal(ip)]
        ELSE [raised |-> TRUE, v |-> 0]

\* int(x) for a float n/d: truncation toward zero
TruncDiv(n, d) == IF n >= 0 THEN n \div d ELSE -((-n) \div d)

\* the body of to_num's try block: the value returned, or raised
to_num_try(x, default) ==
    IF x.k \in {"none", "nan"} THEN [raised |-> FALSE, v |-> default]
    ELSE IF x.k = "int" THEN [raised |-> FALSE, v |-> x.n]
    ELSE IF x.k = "float" THEN [raised |-> FALSE, v |-> TruncDiv(x.n, x.d)]
    ELSE IF x.k = "inf" THEN [raised |-> TRUE, v |-> 0]
    ELSE LET s == RemoveCommas(Strip(x.s))
         IN  IF s = <<>> \/ Lower(s) = <<"n", "a", "n">>
             THEN [raised |-> FALSE, v |-> default]
             ELSE IntOfFloatStr(s)

to_num_default(x, default) ==
    LET r == to_num_try(x, default) IN IF r.raised THEN default ELSE r.v

to_num(x) == to_num_default(x, 0)


(***************************************************************************)
(* Python floats.  lm_net / days_in_current_month, the product with        *)
(* reorder_days and the quotient by visit_freq are IEEE-754 binary64       *)
(* operations, each rounded to nearest, ties to even, on a 53-bit          *)
(* significand.  A float is zero (sign 0) or sign * 0.b1 b2 ... b53 * 2^e  *)
(* with b1 = 1; the significand is a sequence of bits, most significant    *)
(* first.  The values here are far from the exponent limits.               *)
(***************************************************************************)
Prec == 53

FZero == [sign |-> 0, bits |-> <<>>, e |-> 0]

\* the operation raised (ZeroDivisionError) instead of giving a value
FRaised == [sign |-> 2, bits |-> <<>>, e |-> 0]

RECURSIVE IntBits(_)
IntBits(n) == IF n = 0 THEN <<>> ELSE Append(IntBits(n \div 2), n % 2)

RECURSIVE BitsVal(_)
BitsVal(b) == IF b = <<>> THEN 0 ELSE 2 * BitsVal(SubSeq(b, 1, Len(b) - 1)) + b[Len(b)]

\* the bit of position j, 0 beyond the end
BitAt(b, j) == IF j \in 1..Len(b) THEN b[j] ELSE 0

\* the 9 bits of b from position 9k+1 on, as a number, and back
Chunk9(b, k) ==
    256 * BitAt(b, 9 * k + 1) + 128 * BitAt(b, 9 * k + 2) + 64 * BitAt(b, 9 * k + 3)
        + 32 * BitAt(b, 9 * k + 4) + 16 * BitAt(b, 9 * k + 5) + 8 * BitAt(b, 9 * k + 6)
        + 4 * BitAt(b, 9 * k + 7) + 2 * BitAt(b, 9 * k + 8) + BitAt(b, 9 * k + 9)

Bits9(q) == [j \in 1..9 |-> (q \div 2^(9 - j)) % 2]

\* b from its first 1 on
FromFirstOne(b) ==
    LET ones == {j \in 1..Len(b) : b[j] = 1}
    IN  IF ones = {} THEN <<>>
        ELSE SubSeq(b, CHOOSE j \in ones : \A o \in ones : j <= o, Len(b))

\* b + 1, for b not all ones
IncBits(b) ==
    LET z == CHOOSE j \in 1..Len(b) : b[j] = 0 /\ \A o \in (j + 1)..Len(b) : b[o] = 1
    IN  [j \in 1..Len(b) |-> IF j < z THEN b[j] ELSE IF j = z THEN 1 ELSE 0]

\* 0.all * 2^e (plus a nonzero tail when sticky) rounded to Prec bits, ties to even
RoundBits(sign, all, sticky, e) ==
    IF Len(all) <= Prec
    THEN [sign |-> sign, bits |-> all \o [j \in 1..(Prec - Len(all)) |-> 0], e |-> e]
    ELSE LET m == SubSeq(all, 1, Prec)
             g == all[Prec + 1]
             st == sticky \/ \E j \in (Prec + 2)..Len(all) : all[j] = 1
             up == g = 1 /\ (st \/ m[Prec] = 1)
         IN  IF ~up THEN [sign |-> sign, bits |-> m, e |-> e]
             ELSE IF \A j \in 1..Prec : m[j] = 1
                  THEN [sign |-> sign, bits |-> [j \in 1..Prec |-> IF j = 1 THEN 1 ELSE 0],
                        e |-> e + 1]
                  ELSE [sign |-> sign, bits |-> IncBits(m), e |-> e]

\* long division of 0.bits by v (0 < v < 512), 9 bits at a time: the first 63
\* bits of the quotient and the remainder left
RECURSIVE DivChunks(_, _, _, _, _)
DivChunks(bits, k, rem, v, acc) ==
    IF k = 7 THEN [q |-> acc, rem |-> rem]
    ELSE LET t == rem * 512 + Chunk9(bits, k)
         IN  DivChunks(bits, k + 1, t % v, v, acc \o Bits9(t \div v))

\* 0.bits * 2^e / v, rounded
DivBits(sign, bits, e, v) ==
    LET r == DivChunks(bits, 0, 0, v, <<>>)
        first == CHOOSE j \in 1..Len(r.q) : r.q[j] = 1 /\ \A o \in 1..(j - 1) : r.q[o] = 0
        tail == \E j \in (first + Prec + 1)..Len(r.q) : r.q[j] = 1
    IN  RoundBits(sign, SubSeq(r.q, first, first + Prec), r.rem # 0 \/ tail,
                  e - (first - 1))

\* the integer of the 54 bits b times r (0 < r < 2^20), 9 bits at a time from the right
RECURSIVE MulChunks(_, _, _, _, _)
MulChunks(b, k, carry, r, acc) ==
    IF k < 0 THEN IntBits(carry) \o acc
    ELSE LET t == Chunk9(b, k) * r + carry
         IN  MulChunks(b, k - 1, t \div 512, r, Bits9(t % 512) \o acc)

MulBits(bits, r) == FromFirstOne(MulChunks(<<0>> \o bits, 5, 0, r, <<>>))

Sgn(a) == IF a > 0 THEN 1 ELSE IF a < 0 THEN -1 ELSE 0

\* int / int (true division)
FDivInt(a, b) ==
    IF b = 0 THEN FRaised
    ELSE IF a = 0 THEN FZero
    ELSE LET ab == IntBits(Abs(a))
         IN  DivBits(Sgn(a) * Sgn(b), ab, Len(ab), Abs(b))

\* float * int
FMulInt(x, r) ==
    IF x = FRaised THEN FRaised
    ELSE IF x.sign = 0 \/ r = 0 THEN FZero
    ELSE LET p == MulBits(x.bits, Abs(r))
         IN  RoundBits(x.sign * Sgn(r), p, FALSE, x.e - Len(x.bits) + Len(p))

\* float / int
FDivByInt(x, v) ==
    IF x = FRaised \/ v = 0 THEN FRaised
    ELSE IF x.sign = 0 THEN FZero
    ELSE DivBits(x.sign * Sgn(v), x.bits, x.e, Abs(v))

\* round(x) of a float: the nearest integer, a tie to the even one
PyRound(x) ==
    IF x.sign \notin {1, -1} \/ x.e < 0 THEN 0
    ELSE LET n == Len(x.bits)
             ip == BitsVal(SubSeq(x.bits, 1, IF x.e <= n THEN x.e ELSE n))
             half == x.e < n /\ x.bits[x.e + 1] = 1
             rest == \E j \in (x.e + 2)..n : x.bits[j] = 1
             up == half /\ (rest \/ ip % 2 = 1)
         IN  x.sign * (IF up THEN ip + 1 ELSE ip)

(***************************************************************************)
(* One row of the product matrix (lines 261-300): the reference demand     *)
(* ref_sales and the suggested quantity of a SKU.                          *)
(***************************************************************************)
\* line 267
daily_offtake(lm_net, days) == IF days > 0 THEN FDivInt(lm_net, days) ELSE FZero

\* lines 270-275
reorder_days(visit_freq, days) ==
    IF 1 <= visit_freq /\ visit_freq <= 6 THEN 7
    ELSE IF visit_freq >= 8 THEN days
    ELSE 7

\* lines 277-280, before round()
ref_sales_float(offtake, rdays, visit_freq) ==
    IF visit_freq > 0 THEN FDivByInt(FMulInt(offtake, rdays), visit_freq)
    ELSE FMulInt(offtake, rdays)

ref_sales(offtake, rdays, visit_freq) == PyRound(ref_sales_float(offtake, rdays, visit_freq))

\* the difference without the lower bound of line 289
suggested_unclamped(ref, soh_val) == ref - soh_val

\* line 289
suggested(ref, soh_val) == Max(ref - soh_val, 0)

MatrixRow(lm_net, days, visit_freq, soh_val) ==
    LET offtake == daily_offtake(lm_net, days)
        rdays == reorder_days(visit_freq, days)
        rf == ref_sales_float(offtake, rdays, visit_freq)
        ref == PyRound(rf)
    IN  [raised |-> rf = FRaised, reorder_days |-> rdays, ref_sales |-> ref,
         suggested |-> suggested(ref, soh_val)]

(***************************************************************************)
(* Line 310: flag = "Excess Order" if Qty > 1.2 * max(Suggested, 1).       *)
(* 1.2 is the float nearest to 6/5, the product is a float product, and    *)
(* an int exceeds a non-negative float exactly when it exceeds its floor.  *)
(***************************************************************************)
FloorF(x) ==
    IF x.sign \notin {1, -1} \/ x.e <= 0 THEN 0
    ELSE BitsVal(SubSeq(x.bits, 1, IF x.e <= Len(x.bits) THEN x.e ELSE Len(x.bits)))

ExcessThreshold(sugg) == FloorF(FMulInt(FDivInt(6, 5), Max(sugg, 1)))

(***************************************************************************)
(* The sheets behind the form: Store Master, SKU Master, Sales Data and    *)
(* Config as load_data returns them (string cells stripped).               *)
(***************************************************************************)
Str300 == <<"3", "0", "0">>

TodayWeekday == "Monday"

StoreMaster ==
    << [emp |-> "E1", party |-> "P1", store |-> "S1", city |-> "Pune",
        freq |-> IntCell(4), visit_days |-> {"Monday", "Thursday"}],
       [emp |-> "E1", party |-> "P1", store |-> "S2", city |-> "Pune",
        freq |-> IntCell(8), visit_days |-> {"Friday"}] >>

SkuMaster == << [sku |-> "A", cat |-> "C1"], [sku |-> "B", cat |-> "C1"] >>

SalesData ==
    << [party |-> "P1", store |-> "S1", city |-> "Pune", sku |-> "A",
        lm |-> StrCell(Str300)] >>

Users == << [user |-> "u1", pass |-> "pw", emp |-> "E1"] >>

\* lines 171-174
party_list(emp) ==
    {StoreMaster[j].party : j \in {k \in 1..Len(StoreMaster) : StoreMaster[k].emp = emp}}

\* lines 185-203: the stores of the party that are visited today
store_list(emp, p) ==
    IF emp # "" /\ p # ""
    THEN {StoreMaster[j].store :
            j \in {k \in 1..Len(StoreMaster) :
                     /\ StoreMaster[k].emp = emp
                     /\ StoreMaster[k].party = p
                     /\ TodayWeekday \in StoreMaster[k].visit_days}}
    ELSE {}

\* lines 211-219
store_info(emp, p, s) ==
    LET hit == {k \in 1..Len(StoreMaster) :
                  /\ StoreMaster[k].emp = emp
                  /\ StoreMaster[k].party = p
                  /\ StoreMaster[k].store = s}
    IN  IF emp # "" /\ p # "" /\ s # "" /\ hit # {}
        THEN LET k == CHOOSE m \in hit : \A o \in hit : m <= o
             IN  [city |-> StoreMaster[k].city, freq |-> StoreMaster[k].freq]
        ELSE [city |-> "", freq |-> StrCell(<<>>)]

\* line 225
categories == {SkuMaster[j].cat : j \in 1..Len(SkuMaster)}

\* line 235: the SKU rows of the category, in sheet order
filtered_skus(c) == SelectSeq(SkuMaster, LAMBDA r : r.cat = c)

\* lines 254-265
lm_net(p, s, city, sku) ==
    LET hit == {k \in 1..Len(SalesData) :
                  /\ SalesData[k].party = p
                  /\ SalesData[k].store = s
                  /\ SalesData[k].city = city
                  /\ SalesData[k].sku = sku}
    IN  IF hit # {} THEN to_num(SalesData[CHOOSE m \in hit : \A o \in hit : m <= o].lm)
        ELSE 0

MonthLengths == {28, 29, 30, 31}

\* the inputs the sheets above can give the product matrix
SalesFigures == {0} \cup {to_num(SalesData[k].lm) : k \in 1..Len(SalesData)}

VisitFreqs == {to_num(StrCell(<<>>))} \cup {to_num(StoreMaster[k].freq) : k \in 1..Len(StoreMaster)}

\* line 249 on the day of the session
DaysToday == 30

\* ref_sales of those inputs on that day, computed once
RefTable ==
    [x \in SalesFigures \X {DaysToday} \X VisitFreqs |->
        ref_sales(daily_offtake(x[1], x[2]), reorder_days(x[3], x[2]), x[3])] @@ <<>>

\* line 310
flag(qty_val, sugg) ==
    IF qty_val > ExcessThreshold(sugg) THEN "Excess Order" ELSE "OK"

(***************************************************************************)
(* The form.  Every widget event reruns the script: the selections are     *)
(* read, the product matrix is recomputed into order_entries, and a click  *)
(* on "Submit Order" runs the submit loop over it.                         *)
(***************************************************************************)
MaxSubmits == 1

SKUs == {SkuMaster[j].sku : j \in 1..Len(SkuMaster)}

\* the values typed into the SOH and Order Qty number inputs (min_value=0, step=1)
SohValues == {0, 10}

QtyValues == {0, 20}

\* the Admin Emails column of Config as read from the sheet, before load_data strips it
AdminColumns == { <<>>, << <<>>, <<" ">> >>, << <<" ", "a">>, <<>>, <<"b", " ">> >> }

\* line 116: load_data strips every string cell
load_data_column(col) == [j \in 1..Len(col) |-> Strip(col[j])]

\* lines 84-88
full_headers ==
    << "Timestamp", "Order Date", "Employee Name", "Party", "Store Name", "City",
       "Category", "SKU", "Qty", "SOH", "Remarks",
       "Last 2 Month Avg Net Sales", "Running Month Net Sales", "Flag" >>

\* a header row someone gave the Orders worksheet: other columns, another order
custom_headers ==
    << "SKU", "Qty", "SOH", "Flag", "Party", "Store Name", "Category", "Area" >>

\* lines 251-300
Entries(emp, p, s, c, soh, qty, days) ==
    IF c = "" THEN <<>>
    ELSE LET fs == filtered_skus(c)
             info == store_info(emp, p, s)
             visit_freq == to_num(info.freq)
         IN  [j \in 1..Len(fs) |->
                LET sku == fs[j].sku
                    lm == lm_net(p, s, info.city, sku)
                    ref == RefTable[<<lm, days, visit_freq>>]
                IN  [SKU |-> sku, Qty |-> qty[sku], SOH |-> soh[sku],
                     Suggested |-> suggested(ref, soh[sku]), LMSales |-> lm]]

\* lines 312-327
order_dict(emp, p, s, c, entry) ==
    [col \in {full_headers[j] : j \in 1..Len(full_headers)} |->
        CASE col = "Timestamp" -> "now"
          [] col = "Order Date" -> "today"
          [] col = "Employee Name" -> emp
          [] col = "Party" -> p
          [] col = "Store Name" -> s
          [] col = "City" -> store_info(emp, p, s).city
          [] col = "Category" -> c
          [] col = "SKU" -> entry.SKU
          [] col = "Qty" -> entry.Qty
          [] col = "SOH" -> entry.SOH
          [] col = "Remarks" -> ""
          [] col = "Last 2 Month Avg Net Sales" -> entry.LMSales
          [] col = "Running Month Net Sales" -> 0
          [] OTHER -> flag(entry.Qty, entry.Suggested)]

\* line 92
RowOf(headers, data_dict) ==
    [j \in 1..Len(headers) |->
        IF headers[j] \in DOMAIN data_dict THEN data_dict[headers[j]] ELSE ""]

\* lines 89-91: the header row is written when the worksheet has none
with_headers(ws) ==
    IF ws.headers = <<>> THEN [ws EXCEPT !.headers = full_headers] ELSE ws

\* a write that puts the new row above the rows already in the worksheet
append_row_at_top(ws, data_dict) ==
    LET w == with_headers(ws)
    IN  [w EXCEPT !.rows = <<RowOf(w.headers, data_dict)>> \o w.rows]

\* lines 81-93
append_row(ws, data_dict) ==
    LET w == with_headers(ws)
    IN  [w EXCEPT !.rows = Append(w.rows, RowOf(w.headers, data_dict))]

\* the configured addresses without the blank filter of line 343
recipients_unfiltered(emails) == emails

\* line 343
recipients(emails) == SelectSeq([j \in 1..Len(emails) |-> Strip(emails[j])],
                                LAMBDA e : e # <<>>)

\* the Orders worksheet before the session: empty, or with a header row and a row
\* an earlier session appended
OldEntry == [SKU |-> "A", Qty |-> 0, SOH |-> 10, Suggested |-> 0, LMSales |-> 0]

OrdersBefore ==
    { [headers |-> <<>>, rows |-> <<>>],
      [headers |-> custom_headers,
       rows |-> << RowOf(custom_headers, order_dict("E1", "P1", "S1", "C1", OldEntry)) >>] }

NoEng == [pc |-> "off", lm_net |-> 0, days |-> 0, visit_freq |-> 0, soh |-> 0,
          raised |-> FALSE, reorder_days |-> 0, ref_sales |-> 0, suggested |-> 0]

Init ==
    /\ cell = NoneCell /\ num = [done |-> FALSE, v |-> 0]
    /\ eng = NoEng
    /\ admin_emails \in {load_data_column(col) : col \in AdminColumns}
    /\ days_in_current_month = DaysToday
    /\ logged_in = FALSE /\ employee = ""
    /\ party = "" /\ store_name = "" /\ category = ""
    /\ soh_in = [k \in SKUs |-> 0] /\ qty_in = [k \in SKUs |-> 0]
    /\ order_entries = <<>>
    /\ pc = "idle" /\ line = 0
    /\ sheet \in OrdersBefore
    /\ mail = <<>> /\ warnings = 0
    /\ base = Len(sheet.rows)
    /\ submits = 0

\* the script is not in the submit loop: the next widget event reruns it
Interactive == pc \in {"idle", "success", "aborted"}

\* a rerun without a click on "Submit Order"
Rerun(p, s, c, soh, qty) ==
    /\ party' = p /\ store_name' = s /\ category' = c
    /\ soh_in' = soh /\ qty_in' = qty
    /\ order_entries' = Entries(employee, p, s, c, soh, qty, days_in_current_month)
    /\ pc' = "idle" /\ line' = 0 /\ mail' = <<>> /\ warnings' = 0
    /\ base' = Len(sheet.rows)
    /\ UNCHANGED <<cell, num, eng, admin_emails, days_in_current_month, logged_in,
                   employee, sheet, submits>>

\* lines 151-161, with a username and password of the Config sheet
Login ==
    /\ Interactive /\ ~logged_in
    /\ \E j \in 1..Len(Users) :
         /\ logged_in' = TRUE
         /\ employee' = Users[j].emp
    /\ UNCHANGED <<cell, num, eng, admin_emails, days_in_current_month, party,
                   store_name, category, soh_in, qty_in, order_entries, pc, line,
                   sheet, mail, warnings, base, submits>>

\* lines 171-177; a store that is not in the new store list falls back to "-- Select --"
SelectParty ==
    /\ Interactive /\ logged_in
    /\ \E p \in {""} \cup party_list(employee) :
         /\ p # party
         /\ Rerun(p, IF store_name \in store_list(employee, p) THEN store_name ELSE "",
                  category, soh_in, qty_in)

\* lines 205-208
SelectStore ==
    /\ Interactive /\ logged_in
    /\ \E s \in {""} \cup store_list(employee, party) :
         /\ s # store_name
         /\ Rerun(party, s, category, soh_in, qty_in)

\* lines 225-229
SelectCategory ==
    /\ Interactive /\ logged_in
    /\ \E c \in {""} \cup categories :
         /\ c # category
         /\ Rerun(party, store_name, c, soh_in, qty_in)

\* lines 232-237: the matrix is on the page
MatrixShown == category # "" /\ filtered_skus(category) # <<>>

\* line 288
EnterSOH ==
    /\ Interactive /\ logged_in /\ MatrixShown
    /\ \E j \in 1..Len(filtered_skus(category)), v \in SohValues :
         LET sku == filtered_skus(category)[j].sku
         IN  /\ v # soh_in[sku]
             /\ Rerun(party, store_name, category, [soh_in EXCEPT ![sku] = v], qty_in)

\* line 292
EnterQty ==
    /\ Interactive /\ logged_in /\ MatrixShown
    /\ \E j \in 1..Len(filtered_skus(category)), v \in QtyValues :
         LET sku == filtered_skus(category)[j].sku
         IN  /\ v # qty_in[sku]
             /\ Rerun(party, store_name, category, soh_in, [qty_in EXCEPT ![sku] = v])

(***************************************************************************)
(* The submit loop, lines 305-346, one step per line of order_entries and  *)
(* per call that leaves the process (the worksheet, the mail service).     *)
(***************************************************************************)
LoopFrame == <<cell, num, eng, admin_emails, days_in_current_month, logged_in,
               employee, party, store_name, category, soh_in, qty_in, order_entries,
               base, submits>>

CurrentEntry == order_entries[line]

CurrentDict == order_dict(employee, party, store_name, category, CurrentEntry)

\* a skip rule that looks at the quantity alone
skip_line_qty_only(entry) == entry.Qty = 0

\* line 307
skip_line(entry) == entry.SOH = 0 /\ entry.Qty = 0

\* line 331
notify_needed(flg, emails) == flg = "Excess Order" /\ emails # <<>>

\* line 303: the click on "Submit Order"
Submit ==
    /\ Interactive /\ logged_in /\ MatrixShown
    /\ submits < MaxSubmits
    /\ order_entries' = Entries(employee, party, store_name, category, soh_in, qty_in,
                                days_in_current_month)
    /\ pc' = "loop" /\ line' = 1 /\ mail' = <<>> /\ warnings' = 0
    /\ base' = Len(sheet.rows)
    /\ submits' = submits + 1
    /\ UNCHANGED <<cell, num, eng, admin_emails, days_in_current_month, logged_in,
                   employee, party, store_name, category, soh_in, qty_in, sheet>>

InLoop == pc = "loop" /\ line <= Len(order_entries)

\* lines 307-308
SkipLine ==
    /\ InLoop /\ skip_line(CurrentEntry)
    /\ line' = line + 1
    /\ UNCHANGED <<pc, sheet, mail, warnings>>
    /\ UNCHANGED LoopFrame

\* line 329 returns; line 331 decides whether send_email is called
AppendRow ==
    /\ InLoop /\ ~skip_line(CurrentEntry)
    /\ sheet' = append_row(sheet, CurrentDict)
    /\ IF notify_needed(CurrentDict["Flag"], admin_emails)
       THEN pc' = "notify" /\ line' = line
       ELSE pc' = "loop" /\ line' = line + 1
    /\ UNCHANGED <<mail, warnings>>
    /\ UNCHANGED LoopFrame

\* line 329 raises (a gspread call fails): nothing catches it and the run ends.
\* The call that fails is the lookup or the read of row 1 (the worksheet is as it
\* was), or the append after the header row was inserted.
AppendRowRaises ==
    /\ InLoop /\ ~skip_line(CurrentEntry)
    /\ \/ sheet' = sheet
       \/ sheet.headers = <<>> /\ sheet' = with_headers(sheet)
    /\ pc' = "aborted"
    /\ UNCHANGED <<line, mail, warnings>>
    /\ UNCHANGED LoopFrame

Attempt(sent) ==
    [line |-> line, row |-> Len(sheet.rows), to |-> recipients(admin_emails), ok |-> sent]

\* lines 98-99: no recipient is left, send_email returns
SendEmailNoRecipient ==
    /\ pc = "notify" /\ recipients(admin_emails) = <<>>
    /\ pc' = "loop" /\ line' = line + 1
    /\ UNCHANGED <<sheet, mail, warnings>>
    /\ UNCHANGED LoopFrame

\* lines 100-104
SendEmailSent ==
    /\ pc = "notify" /\ recipients(admin_emails) # <<>>
    /\ mail' = Append(mail, Attempt(TRUE))
    /\ pc' = "loop" /\ line' = line + 1
    /\ UNCHANGED <<sheet, warnings>>
    /\ UNCHANGED LoopFrame

\* a send whose exception leaves send_email and ends the run
SendEmailFailsPropagates ==
    /\ pc = "notify" /\ recipients(admin_emails) # <<>>
    /\ mail' = Append(mail, Attempt(FALSE))
    /\ pc' = "aborted"
    /\ UNCHANGED <<line, sheet, warnings>>
    /\ UNCHANGED LoopFrame

\* lines 104-106: the send raises, send_email warns and returns
SendEmailFails ==
    /\ pc = "notify" /\ recipients(admin_emails) # <<>>
    /\ mail' = Append(mail, Attempt(FALSE))
    /\ warnings' = warnings + 1
    /\ pc' = "loop" /\ line' = line + 1
    /\ UNCHANGED sheet
    /\ UNCHANGED LoopFrame

\* line 346
LoopEnd ==
    /\ pc = "loop" /\ line > Len(order_entries)
    /\ pc' = "success"
    /\ UNCHANGED <<line, sheet, mail, warnings>>
    /\ UNCHANGED LoopFrame

Next ==
    \/ Login
    \/ SelectParty
    \/ SelectStore
    \/ SelectCategory
    \/ EnterSOH
    \/ EnterQty
    \/ Submit
    \/ SkipLine
    \/ AppendRow
    \/ AppendRowRaises
    \/ SendEmailNoRecipient
    \/ SendEmailSent
    \/ SendEmailFails
    \/ LoopEnd

Spec == Init /\ [][Next]_vars

(***************************************************************************)
(* to_num on its own: a cell is drawn, to_num is applied to it.            *)
(***************************************************************************)
MaxStrLen == 3

MaxInt == 3

Alphabet == {" ", ",", "-", ".", "1", "n", "a"}

RECURSIVE StringsUpTo(_)
StringsUpTo(n) ==
    IF n = 0 THEN {<<>>}
    ELSE LET shorter == StringsUpTo(n - 1)
         IN  shorter \cup {Append(t, c) : t \in {u \in shorter : Len(u) = n - 1}, c \in Alphabet}

SampleStrings ==
    { <<"1", ",", "2", "3", "4">>, <<"a", "b", "c">>, <<" ", "N", "a", "N", " ">>,
      <<"-", "7", ".", "9">>, <<"1", "2", ".", "9">>, <<"+", "5">>, Str300 }

Cells ==
    {NoneCell, NanCell, InfCell}
        \cup {IntCell(v) : v \in (-MaxInt)..MaxInt}
        \cup {FloatCell(n, 2) : n \in (-2 * MaxInt - 1)..(2 * MaxInt + 1)}
        \cup {StrCell(t) : t \in StringsUpTo(MaxStrLen) \cup SampleStrings}

\* the form's variables while a function is checked on its own
FormOff ==
    /\ admin_emails = <<>> /\ days_in_current_month = DaysToday
    /\ logged_in = FALSE /\ employee = ""
    /\ party = "" /\ store_name = "" /\ category = ""
    /\ soh_in = [k \in SKUs |-> 0] /\ qty_in = [k \in SKUs |-> 0]
    /\ order_entries = <<>>
    /\ pc = "off" /\ line = 0
    /\ sheet = [headers |-> <<>>, rows |-> <<>>]
    /\ mail = <<>> /\ warnings = 0 /\ base = 0 /\ submits = 0

FormVars == <<admin_emails, days_in_current_month, logged_in, employee, party,
              store_name, category, soh_in, qty_in, order_entries, pc, line, sheet,
              mail, warnings, base, submits>>

InitNum ==
    /\ cell \in Cells
    /\ num = [done |-> FALSE, v |-> 0]
    /\ eng = NoEng
    /\ FormOff

\* lines 67-78
Coerce ==
    /\ ~num.done
    /\ num' = [done |-> TRUE, v |-> to_num(cell)]
    /\ UNCHANGED <<cell, eng>>
    /\ UNCHANGED FormVars

NextNum == Coerce

SpecNum == InitNum /\ [][NextNum]_vars

(***************************************************************************)
(* One row of the product matrix on its own: the sales figure, the month   *)
(* length, the visit frequency and the stock on hand are drawn, lines      *)
(* 267-289 are applied to them.                                            *)
(***************************************************************************)
MaxSales == 10

MaxFreq == 10

MaxSoh == 1

EngSales == ((-MaxSales)..MaxSales) \cup {58, 115, 300}

EngFreqs == (-2)..MaxFreq

EngSoh == (0..MaxSoh) \cup {10}

InitEngine ==
    /\ cell = NoneCell /\ num = [done |-> FALSE, v |-> 0]
    /\ \E lm \in EngSales, days \in MonthLengths, vf \in EngFreqs, soh \in EngSoh :
         eng = [NoEng EXCEPT !.pc = "ready", !.lm_net = lm, !.days = days,
                             !.visit_freq = vf, !.soh = soh]
    /\ FormOff

\* lines 267-289
ComputeRow ==
    /\ eng.pc = "ready"
    /\ LET r == MatrixRow(eng.lm_net, eng.days, eng.visit_freq, eng.soh)
       IN  eng' = [eng EXCEPT !.pc = "done", !.raised = r.raised,
                              !.reorder_days = r.reorder_days,
                              !.ref_sales = r.ref_sales, !.suggested = r.suggested]
    /\ UNCHANGED <<cell, num>>
    /\ UNCHANGED FormVars

NextEngine == ComputeRow

SpecEngine == InitEngine /\ [][NextEngine]_vars

(***************************************************************************)
(* Properties.                                                             *)
(***************************************************************************)
\* the cell of row r in the column named col of the Orders worksheet
FieldIn(headers, r, col) == r[CHOOSE j \in 1..Len(headers) : headers[j] = col]

Field(r, col) == FieldIn(sheet.headers, r, col)

\* the rows this run of the submit loop has appended
NewRows == SubSeq(sheet.rows, base + 1, Len(sheet.rows))

InSubmission == pc \in {"loop", "notify", "success", "aborted"}

\* how many lines of order_entries the loop has been through (the line whose
\* append raised is not one of them; the line waiting for its mail is one)
Processed ==
    CASE pc = "loop" -> line - 1
      [] pc = "notify" -> line
      [] pc = "success" -> Len(order_entries)
      [] pc = "aborted" -> line - 1
      [] OTHER -> 0

\* the lines among the first n that have a stock on hand or a quantity
Kept(n) == SelectSeq(SubSeq(order_entries, 1, n), LAMBDA e : ~(e.SOH = 0 /\ e.Qty = 0))

RoundHalfEven(n, d) ==
    LET f == n \div d
        twice == 2 * (n - f * d)
    IN  IF twice < d THEN f
        ELSE IF twice > d THEN f + 1
        ELSE IF f % 2 = 0 THEN f ELSE f + 1

RoundHalfUp(n, d) == (2 * n + d) \div (2 * d)

RoundHalfAway(n, d) == IF n >= 0 THEN RoundHalfUp(n, d) ELSE -RoundHalfUp(-n, d)

\* the reference demand of the line a row was written for, before the stock on
\* hand is subtracted
RefOfRow(r) ==
    LET info == store_info(Users[1].emp, Field(r, "Party"), Field(r, "Store Name"))
    IN  RefTable[<<lm_net(Field(r, "Party"), Field(r, "Store Name"), info.city,
                          Field(r, "SKU")),
                   days_in_current_month, to_num(info.freq)>>]

\* C1: every order row has Flag "Excess Order" exactly when Qty > 1.2 * max(ref, 1),
\* ref being the reference demand before the stock on hand is subtracted, and "OK"
\* otherwise; rows with the same Qty and the same reference demand have the same Flag.
C1_FlagFromReferenceDemand ==
    /\ \A j \in 1..Len(sheet.rows) :
         LET r == sheet.rows[j]
         IN  Field(r, "Flag") =
                IF 5 * Field(r, "Qty") > 6 * Max(RefOfRow(r), 1) THEN "Excess Order" ELSE "OK"
    /\ \A j, k \in 1..Len(sheet.rows) :
         LET r == sheet.rows[j]
             q == sheet.rows[k]
         IN  (Field(r, "Qty") = Field(q, "Qty") /\ RefOfRow(r) = RefOfRow(q))
                => Field(r, "Flag") = Field(q, "Flag")

\* C2: when a send fails during a submission, a warning is shown for it, the row of
\* that line is in the worksheet and stays there, the run is not ended by it (a run
\* that ended without success ended in an append, before any send for that line),
\* and a run that reaches the success message has appended every line that has a
\* stock on hand or a quantity.
C2_SendFailureIsNotFatal ==
    LET failed == {i \in 1..Len(mail) : ~mail[i].ok}
    IN  /\ warnings = Cardinality(failed)
        /\ \A i \in failed :
             /\ base < mail[i].row /\ mail[i].row <= Len(sheet.rows)
             /\ Field(sheet.rows[mail[i].row], "SKU") = order_entries[mail[i].line].SKU
             /\ Field(sheet.rows[mail[i].row], "Qty") = order_entries[mail[i].line].Qty
        /\ (failed # {} /\ pc = "aborted") => \A i \in 1..Len(mail) : mail[i].line < line
        /\ (failed # {} /\ pc = "success") =>
             /\ Len(NewRows) = Len(Kept(Len(order_entries)))
             /\ \A j \in 1..Len(NewRows) :
                  Field(NewRows[j], "SKU") = Kept(Len(order_entries))[j].SKU

C2_Witness ==
    /\ pc = "success"
    /\ Len(order_entries) = 2 /\ Len(NewRows) = 2
    /\ \E i \in 1..Len(mail) : ~mail[i].ok /\ mail[i].line = 1
    /\ warnings >= 1

\* C3: an append that raises for one line does not keep the later lines of the
\* submission from being processed: when the run has ended in a failed append, no
\* later line with a stock on hand or a quantity is left.
C3_AppendFailureDoesNotBlock ==
    pc = "aborted" =>
        \A j \in (line + 1)..Len(order_entries) :
            order_entries[j].SOH = 0 /\ order_entries[j].Qty = 0

\* C4: no order row has an empty Party, Store Name or Category.
C4_NoRowWithoutSelection ==
    \A j \in 1..Len(sheet.rows) :
        /\ Field(sheet.rows[j], "Party") # ""
        /\ Field(sheet.rows[j], "Store Name") # ""
        /\ Field(sheet.rows[j], "Category") # ""

\* C5: the matrix row equals the reference computation in real arithmetic:
\* reorder_days is 7 for a visit frequency in 1..6, the month length for 8 and
\* more, 7 otherwise; ref_sales is sales * reorder_days / (days * visit_freq)
\* (not divided by a visit frequency <= 0) rounded once, a half going to the even
\* neighbour, up or away from zero; suggested is max(ref_sales - soh, 0); sales 300
\* in a month of 30 days with stock 10 give 18 and 8 at visit frequency 4, 38 and
\* 28 at visit frequency 8.
C5_MatchesReference ==
    eng.pc = "done" =>
        LET vf == eng.visit_freq
            rd == IF vf \in 1..6 THEN 7 ELSE IF vf >= 8 THEN eng.days ELSE 7
            numer == eng.lm_net * rd
            denom == eng.days * (IF vf > 0 THEN vf ELSE 1)
        IN  /\ eng.reorder_days = rd
            /\ eng.ref_sales \in {RoundHalfEven(numer, denom), RoundHalfUp(numer, denom),
                                 RoundHalfAway(numer, denom)}
            /\ eng.suggested = Max(eng.ref_sales - eng.soh, 0)
            /\ (eng.lm_net = 300 /\ eng.days = 30 /\ eng.soh = 10 /\ vf = 4)
                  => (eng.ref_sales = 18 /\ eng.suggested = 8)
            /\ (eng.lm_net = 300 /\ eng.days = 30 /\ eng.soh = 10 /\ vf = 8)
                  => (eng.ref_sales = 38 /\ eng.suggested = 28)

\* C6: for every sales figure (0 and negative ones too), visit frequency (0, 7 and
\* negative ones too) and stock on hand >= 0 the matrix row is computed without
\* raising and the suggested quantity is an integer >= 0; it is 0 when the sales
\* figure is 0.
C6_SuggestedDefinedNonNegative ==
    eng.pc = "done" =>
        /\ ~eng.raised
        /\ eng.suggested \in Nat
        /\ eng.lm_net = 0 => eng.suggested = 0

C6_Witness ==
    /\ eng.pc = "done"
    /\ eng.lm_net < 0 /\ eng.visit_freq = 0 /\ eng.soh > 0
    /\ eng.ref_sales < 0 /\ eng.suggested = 0

Blank(e) == Strip(e) = <<>>

\* the rows of this run whose line is through with its mail
SettledRows ==
    IF pc = "notify" THEN (base + 1)..(Len(sheet.rows) - 1) ELSE (base + 1)..Len(sheet.rows)

\* C7: during a submission a send is attempted for a row only if its Flag is
\* "Excess Order", and then exactly once, to every configured admin address that
\* is not blank and to no blank one; with no admin address, or only blank ones, no
\* send is attempted.
C7_NotifyExcessOnly ==
    InSubmission =>
        /\ \A i \in 1..Len(mail) :
             /\ mail[i].row \in (base + 1)..Len(sheet.rows)
             /\ Field(sheet.rows[mail[i].row], "Flag") = "Excess Order"
             /\ \A j \in 1..Len(admin_emails) :
                  ~Blank(admin_emails[j]) =>
                      \E t \in 1..Len(mail[i].to) : mail[i].to[t] = admin_emails[j]
             /\ \A t \in 1..Len(mail[i].to) :
                  /\ ~Blank(mail[i].to[t])
                  /\ \E j \in 1..Len(admin_emails) : mail[i].to[t] = admin_emails[j]
        /\ \A k \in SettledRows :
             Cardinality({i \in 1..Len(mail) : mail[i].row = k}) =
                IF /\ Field(sheet.rows[k], "Flag") = "Excess Order"
                   /\ \E j \in 1..Len(admin_emails) : ~Blank(admin_emails[j])
                THEN 1 ELSE 0
        /\ (\A j \in 1..Len(admin_emails) : Blank(admin_emails[j])) => mail = <<>>

C7_Witness ==
    /\ pc = "success"
    /\ \E j \in 1..Len(admin_emails) : Blank(admin_emails[j])
    /\ Len(mail) = 1 /\ Len(mail[1].to) = 2
    /\ Len(NewRows) = 2
    /\ \E k \in 1..2 : Field(NewRows[k], "Flag") = "OK"

\* C8: the Orders worksheet is append-only: a step leaves its rows as they are or
\* adds exactly one row at the end, and it adds one only for a line that has a
\* stock on hand or a quantity.
C8_AppendOnly ==
    [][\/ sheet'.rows = sheet.rows
       \/ /\ Len(sheet'.rows) = Len(sheet.rows) + 1
          /\ SubSeq(sheet'.rows, 1, Len(sheet.rows)) = sheet.rows
          /\ pc = "loop" /\ line <= Len(order_entries)
          /\ ~(order_entries[line].SOH = 0 /\ order_entries[line].Qty = 0)
          /\ FieldIn(sheet'.headers, sheet'.rows[Len(sheet'.rows)], "SKU")
                = order_entries[line].SKU]_vars

C8_Witness ==
    /\ pc = "success"
    /\ base >= 1 /\ Len(sheet.rows) = base + 2
    /\ \E i \in 1..Len(mail) : ~mail[i].ok

\* C9: to_num with the default 0 returns an integer >= 0 for every cell: 0 for a
\* missing cell, NaN, blank text, "nan" in any case and text that is no number;
\* the truncation of a number; the number a text spells once blanks around it and
\* commas are removed ("1,234" gives 1234).
C9_ToNumNonNegative ==
    num.done =>
        /\ num.v \in Int
        /\ num.v >= 0
        /\ cell.k \in {"none", "nan"} => num.v = 0
        /\ (cell.k = "str" /\ \A j \in 1..Len(cell.s) : cell.s[j] \in {" ", ","}) => num.v = 0
        /\ (cell.k = "str" /\ \E j \in 1..Len(cell.s) : cell.s[j] \in {"a", "b", "c", "n", "N"})
              => num.v = 0
        /\ cell = StrCell(<<"1", ",", "2", "3", "4">>) => num.v = 1234
        /\ cell.k = "int" => num.v = cell.n
        /\ (cell.k = "float" /\ cell.n >= 0) => num.v = cell.n \div cell.d

\* C10: the lines are gone through in the order of the SKU sheet; a line is
\* appended exactly when its stock on hand and its quantity are not both 0, a line
\* with quantity 0 gets Flag "OK"; a send is attempted for a line only after its
\* row was appended.
C10_SkipRuleAndOrder ==
    InSubmission =>
        /\ [j \in 1..Len(order_entries) |-> order_entries[j].SKU]
              = [j \in 1..Len(filtered_skus(category)) |-> filtered_skus(category)[j].sku]
        /\ Len(NewRows) = Len(Kept(Processed))
        /\ \A j \in 1..Len(NewRows) :
             /\ Field(NewRows[j], "SKU") = Kept(Processed)[j].SKU
             /\ Field(NewRows[j], "Qty") = Kept(Processed)[j].Qty
             /\ Field(NewRows[j], "SOH") = Kept(Processed)[j].SOH
             /\ Field(NewRows[j], "Qty") = 0 => Field(NewRows[j], "Flag") = "OK"
        /\ \A i \in 1..Len(mail) :
             /\ mail[i].row \in (base + 1)..Len(sheet.rows)
             /\ Field(sheet.rows[mail[i].row], "SKU") = order_entries[mail[i].line].SKU
        /\ pc = "notify" =>
             /\ NewRows # <<>>
             /\ Field(sheet.rows[Len(sheet.rows)], "SKU") = order_entries[line].SKU

C10_Witness ==
    /\ pc = "success"
    /\ order_entries[1].SOH = 0 /\ order_entries[1].Qty = 0
    /\ order_entries[2].SOH > 0 /\ order_entries[2].Qty = 0
    /\ Len(NewRows) = 1
    /\ Field(NewRows[1], "SKU") = order_entries[2].SKU
    /\ Field(NewRows[1], "Flag") = "OK"

=============================================================================
